---- MODULE Spec2Model ----
(***************************************************************************)
(* Model of the Gmail agent's message-dispatch contract                    *)
(* (src/gmail_agent.py): AgentMessage / EmailRequest / EmailResponse,      *)
(* GmailAgent.authenticate, create_message, send_email,                    *)
(* process_agent_message and handle_message_json; and of the Nextcloud     *)
(* WebDAV client (src/ConexionNextcloud.py): NextcloudClient's             *)
(* test_connection, list_files, upload_file, download_file, create_folder. *)
(*                                                                         *)
(* Python values are modelled as follows.                                  *)
(*   Optional[T]   None / Some(x)  (records, so None differs from any x)   *)
(*   str built by an f-string: the sequence of its parts, so that          *)
(*                 f"Unknown message type: {t}" is <<"Unknown ...", t>>    *)
(*   dict          a function from its keys to their values                *)
(*   a call        Ok(v) when it returns v, Raise(e) when e propagates     *)
(* The delivery backend (OAuth flow, Gmail API) is the environment: its    *)
(* outcome for one call is the record env chosen by the action.            *)
(***************************************************************************)
EXTENDS Integers, Sequences, FiniteSets, TLC

\* ---------------------------------------------------------------- bounds
\* number of operations performed on one agent instance
MaxClock == 3

\* ------------------------------------------------------- Python values
None == [present |-> FALSE]

Some(x) == [present |-> TRUE, value |-> x]

Ok(v) == [raised |-> FALSE, value |-> v]

Raise(e) == [raised |-> TRUE, exc |-> e]

Exception(type, str) == [type |-> type, str |-> str]

\* True when the text (a sequence of parts) contains the part s
Contains(text, s) == \E i \in 1..Len(text) : text[i] = s

\* ------------------------------------------------------------ dataclasses
AgentMessageRequired == <<"agent_id", "message_type", "timestamp", "payload">>

AgentMessageFields == {"agent_id", "message_type", "timestamp", "payload",
                       "correlation_id", "reply_to"}

EmailRequestRequired == <<"to", "subject", "body">>

EmailRequestFields == {"to", "subject", "body", "cc", "bcc", "attachments", "html_body"}

\* The TypeError a dataclass __init__ raises when called as cls(**data):
\* data not a mapping; a key that is no field; a required field missing.
\* None when the call binds.  Python reports an unexpected keyword before
\* the missing positional arguments.
KwargsError(data, required, fields) ==
    IF data.kind # "mapping"
    THEN Some(Exception("TypeError", <<"argument after ** must be a mapping, not ", data.kind>>))
    ELSE IF \E k \in DOMAIN data.items : k \notin fields
    THEN Some(Exception("TypeError", <<"got an unexpected keyword argument ",
                          CHOOSE k \in DOMAIN data.items : k \notin fields>>))
    ELSE IF \E i \in 1..Len(required) : required[i] \notin DOMAIN data.items
    THEN Some(Exception("TypeError", <<"missing required positional arguments: ">> \o
                          SelectSeq(required, LAMBDA k : k \notin DOMAIN data.items)))
    ELSE None

\* value of an optional field: the dataclass default None when not passed
Field(data, k) == IF k \in DOMAIN data.items THEN data.items[k] ELSE None

\* mutant of EmailRequest: a missing required field is bound to an empty
\* value instead of being refused
EmailRequest_defaults(payload) ==
    IF payload.kind # "mapping" \/ \E k \in DOMAIN payload.items : k \notin EmailRequestFields
    THEN Raise(KwargsError(payload, EmailRequestRequired, EmailRequestFields).value)
    ELSE Ok([to |-> IF "to" \in DOMAIN payload.items THEN payload.items["to"] ELSE <<>>,
             subject |-> IF "subject" \in DOMAIN payload.items THEN payload.items["subject"] ELSE "",
             body |-> IF "body" \in DOMAIN payload.items THEN payload.items["body"] ELSE "",
             cc |-> Field(payload, "cc"),
             bcc |-> Field(payload, "bcc"),
             attachments |-> Field(payload, "attachments"),
             html_body |-> Field(payload, "html_body")])

\* EmailRequest(**payload)
EmailRequest(payload) ==
    LET err == KwargsError(payload, EmailRequestRequired, EmailRequestFields)
    IN  IF err.present THEN Raise(err.value)
        ELSE Ok([to |-> payload.items["to"],
                 subject |-> payload.items["subject"],
                 body |-> payload.items["body"],
                 cc |-> Field(payload, "cc"),
                 bcc |-> Field(payload, "bcc"),
                 attachments |-> Field(payload, "attachments"),
                 html_body |-> Field(payload, "html_body")])

EmailResponse(success, message_id, error, details) ==
    [success |-> success, message_id |-> message_id, error |-> error, details |-> details]

\* mutant of AgentMessage: keys that are no field are ignored
AgentMessage_ignore_extra(data) ==
    IF data.kind # "mapping"
       \/ \E i \in 1..Len(AgentMessageRequired) : AgentMessageRequired[i] \notin DOMAIN data.items
    THEN Raise(Exception("TypeError", <<"missing required positional arguments: ">>))
    ELSE Ok([agent_id |-> data.items["agent_id"],
             message_type |-> data.items["message_type"],
             timestamp |-> data.items["timestamp"],
             payload |-> data.items["payload"],
             correlation_id |-> Field(data, "correlation_id"),
             reply_to |-> Field(data, "reply_to")])

\* AgentMessage(**message_data)
AgentMessage(data) ==
    LET err == KwargsError(data, AgentMessageRequired, AgentMessageFields)
    IN  IF err.present THEN Raise(err.value)
        ELSE Ok([agent_id |-> data.items["agent_id"],
                 message_type |-> data.items["message_type"],
                 timestamp |-> data.items["timestamp"],
                 payload |-> data.items["payload"],
                 correlation_id |-> Field(data, "correlation_id"),
                 reply_to |-> Field(data, "reply_to")])

\* asdict(message): the dict of all six fields
asdict(m) == [kind |-> "mapping", items |-> m]

\* json.loads(text): a text is either not well-formed JSON or denotes a value
json_loads(text) ==
    IF text.form = "malformed"
    THEN Raise(Exception("JSONDecodeError", <<"Expecting value: line 1 column 1 (char 0)">>))
    ELSE Ok(text.data)

\* json.dumps(value, indent=2)
json_dumps(data) == [form |-> "json", data |-> data]

\* ------------------------------------------------------------- GmailAgent
\* The agent's own identity (main: GmailAgent("gmail-agent-001"))
SelfId == "gmail-agent-001"

\* self: [service, builds, log]
\*   service    the backend session handle, None until authenticate succeeds;
\*              Some(n) is the n-th object returned by build()
\*   builds     number of session objects built so far
\*   log        the adapter steps taken during the current operation, in
\*              order: authenticate, create_message, send, with their outcome
Step(name, outcome, session) == [step |-> name, outcome |-> outcome, session |-> session]

Logged(self, name, outcome, session) ==
    [self EXCEPT !.log = Append(@, Step(name, outcome, session))]

\* authenticate(): authOk is whether credential loading / refresh / consent
\* flow / token write / build all complete without an exception
authenticate(self, authOk) ==
    IF authOk
    THEN [self |-> [Logged(self, "authenticate", "ok", Some(self.builds + 1))
                        EXCEPT !.service = Some(self.builds + 1), !.builds = @ + 1],
          value |-> TRUE]
    ELSE [self |-> Logged(self, "authenticate", "failed", self.service),
          value |-> FALSE]

\* ', '.join(list): the items with the separator between them
Join(list) ==
    [i \in 1..(2 * Len(list) - 1) |-> IF i % 2 = 1 THEN list[(i + 1) \div 2] ELSE ", "]

\* create_message(email_req): createOk is whether MIME construction,
\* attachment reading and encoding complete without an exception
create_message(email_req, createOk) ==
    IF ~createOk THEN None
    ELSE LET alternative == email_req.html_body.present
             mixed == email_req.attachments.present /\ ~alternative
         IN  Some([raw |-> [multipart |-> IF alternative THEN "alternative"
                                          ELSE IF mixed THEN "mixed" ELSE "none",
                            to |-> Join(email_req.to),
                            subject |-> email_req.subject,
                            cc |-> IF email_req.cc.present /\ email_req.cc.value # <<>>
                                   THEN Some(Join(email_req.cc.value)) ELSE None]])

\* outcomes of users().messages().send(userId='me', body=message).execute()
SendOutcomes == {"sent", "sent_no_thread", "no_id", "HttpError", "Exception"}

execute(outcome) ==
    CASE outcome = "sent" -> Ok([id |-> Some("m1"), threadId |-> Some("th1")])
      [] outcome = "sent_no_thread" -> Ok([id |-> Some("m1"), threadId |-> None])
      [] outcome = "no_id" -> Ok([id |-> None, threadId |-> None])
      [] outcome = "HttpError" -> Raise(Exception("HttpError", <<"HttpError 403">>))
      [] OTHER -> Raise(Exception("ConnectionError", <<"connection reset">>))

\* mutant of send_email_except: the failure description is dropped
send_email_except_no_error(self, e) ==
    [self |-> self, result |-> Ok(EmailResponse(FALSE, None, None, None))]

\* mutant of send_email_except: the exception is raised again
send_email_except_reraise(self, e) ==
    [self |-> self, result |-> Raise(e)]

\* the except clauses of send_email
send_email_except(self, e) ==
    IF e.type = "HttpError"
    THEN [self |-> self,
          result |-> Ok(EmailResponse(FALSE, None, Some(<<"Gmail API error: ">> \o e.str), None))]
    ELSE [self |-> self,
          result |-> Ok(EmailResponse(FALSE, None, Some(<<"Unexpected error: ">> \o e.str), None))]

\* mutant of ensure_service: authenticate on every send
ensure_service_always(self, authOk) == authenticate(self, authOk)

\* send_email: "if not self.service: if not self.authenticate()"; value is
\* FALSE when send_email must give up
ensure_service(self, authOk) ==
    IF ~self.service.present
    THEN authenticate(self, authOk)
    ELSE [self |-> self, value |-> TRUE]

\* mutant of send_call: a send that raised is tried once more
send_call_retry(self, message, outcome) ==
    LET s == Logged(self, "send", outcome, self.service)
        sent == execute(outcome)
        again == Logged(s, "send", outcome, self.service)
    IN  IF sent.raised THEN send_email_except(again, sent.exc)
        ELSE IF ~sent.value.id.present
        THEN send_email_except(s, Exception("KeyError", <<"'id'">>))
        ELSE [self |-> s,
              result |-> Ok(EmailResponse(TRUE, sent.value.id, None,
                                          Some([thread_id |-> sent.value.threadId])))]

\* send_email: the send call on the session and the response built from its
\* result; an exception goes to the except clauses
send_call(self, message, outcome) ==
    LET s == Logged(self, "send", outcome, self.service)
        sent == execute(outcome)
    IN  IF sent.raised THEN send_email_except(s, sent.exc)
        ELSE IF ~sent.value.id.present
        THEN send_email_except(s, Exception("KeyError", <<"'id'">>))
        ELSE [self |-> s,
              result |-> Ok(EmailResponse(TRUE, sent.value.id, None,
                                          Some([thread_id |-> sent.value.threadId])))]

\* send_email(email_req) under the backend behaviour env
send_email(self, email_req, env) ==
    LET auth == ensure_service(self, env.authOk)
        message == create_message(email_req, env.createOk)
        s1 == Logged(auth.self, "create_message",
                     IF message.present THEN "ok" ELSE "failed", auth.self.service)
    IN  IF ~auth.value
        THEN [self |-> auth.self,
              result |-> Ok(EmailResponse(FALSE, None, Some(<<"Authentication failed">>), None))]
        ELSE IF ~message.present
        THEN [self |-> s1,
              result |-> Ok(EmailResponse(FALSE, None, Some(<<"Failed to create email message">>), None))]
        ELSE send_call(s1, message.value, env.send)

\* the except clause of process_agent_message
process_except(self, e) ==
    [self |-> self,
     result |-> Ok([payload |-> [error |-> <<"Processing error: ">> \o e.str],
                    type |-> "error_response"])]

\* the email_send_request branch
handle_email_send(self, message, env) ==
    LET req == EmailRequest(message.payload)
    IN  IF req.raised THEN process_except(self, req.exc)
        ELSE LET sr == send_email(self, req.value, env)
             IN  IF sr.result.raised THEN process_except(sr.self, sr.result.exc)
                 ELSE [self |-> sr.self,
                       result |-> Ok([payload |-> sr.result.value,
                                      type |-> "email_send_response"])]

\* mutant of handle_health_check: the test of the session is inverted
handle_health_check_inverted(self) ==
    [self |-> self,
     result |-> Ok([payload |-> [status |-> "healthy",
                                 agent_id |-> SelfId,
                                 authenticated |-> ~self.service.present],
                    type |-> "health_check_response"])]

\* the health_check branch
handle_health_check(self) ==
    [self |-> self,
     result |-> Ok([payload |-> [status |-> "healthy",
                                 agent_id |-> SelfId,
                                 authenticated |-> self.service.present],
                    type |-> "health_check_response"])]

\* mutant of CapabilityResponseType: the type named after the request
CapabilityInquiryResponseType == "capability_inquiry_response"

\* response type of the capability_inquiry branch
CapabilityResponseType == "capability_response"

\* mutant of handle_capability_inquiry: the capabilities offered depend on
\* whether a session exists
handle_capability_inquiry_by_session(self) ==
    [self |-> self,
     result |-> Ok([payload |-> [capabilities |-> IF self.service.present
                                                  THEN <<"email_send", "html_email",
                                                         "attachments", "cc_bcc_support">>
                                                  ELSE <<>>,
                                 agent_type |-> "gmail_agent",
                                 version |-> "1.0"],
                    type |-> CapabilityResponseType])]

\* the capability_inquiry branch
handle_capability_inquiry(self) ==
    [self |-> self,
     result |-> Ok([payload |-> [capabilities |-> <<"email_send", "html_email",
                                                    "attachments", "cc_bcc_support">>,
                                 agent_type |-> "gmail_agent",
                                 version |-> "1.0"],
                    type |-> CapabilityResponseType])]

\* mutant of handle_unknown: the offending type is left out of the text
handle_unknown_untyped(self, message) ==
    [self |-> self,
     result |-> Ok([payload |-> [error |-> <<"Unknown message type">>],
                    type |-> "error_response"])]

\* the else branch
handle_unknown(self, message) ==
    [self |-> self,
     result |-> Ok([payload |-> [error |-> <<"Unknown message type: ", message.message_type>>],
                    type |-> "error_response"])]

\* the try block of process_agent_message: response payload and type
process_try(self, message, env) ==
    IF message.message_type = "email_send_request" THEN handle_email_send(self, message, env)
    ELSE IF message.message_type = "health_check" THEN handle_health_check(self)
    ELSE IF message.message_type = "capability_inquiry" THEN handle_capability_inquiry(self)
    ELSE handle_unknown(self, message)

\* mutant of Response: the correlation id is not copied
Response_uncorrelated(message, type, payload, now) ==
    [agent_id |-> SelfId,
     message_type |-> type,
     timestamp |-> now,
     payload |-> payload,
     correlation_id |-> None,
     reply_to |-> Some(message.agent_id)]

\* the response AgentMessage built from the request and the handler's outcome
Response(message, type, payload, now) ==
    [agent_id |-> SelfId,
     message_type |-> type,
     timestamp |-> now,
     payload |-> payload,
     correlation_id |-> message.correlation_id,
     reply_to |-> Some(message.agent_id)]

\* process_agent_message(message) at time now
process_agent_message(self, message, env, now) ==
    LET t == process_try(self, message, env)
    IN  IF t.result.raised
        THEN [self |-> t.self, result |-> t.result]
        ELSE [self |-> t.self,
              result |-> Ok(Response(message, t.result.value.type, t.result.value.payload, now))]

\* the error AgentMessage built by the except clauses of handle_message_json
ErrorMessage(prefix, e, now) ==
    [agent_id |-> SelfId,
     message_type |-> "error_response",
     timestamp |-> now,
     payload |-> [error |-> <<prefix>> \o e.str],
     correlation_id |-> None,
     reply_to |-> None]

\* the except clauses of handle_message_json
handle_except(self, e, now, dispatched) ==
    IF e.type = "JSONDecodeError"
    THEN [self |-> self, dispatched |-> dispatched,
          result |-> Ok(json_dumps(asdict(ErrorMessage("Invalid JSON: ", e, now))))]
    ELSE [self |-> self, dispatched |-> dispatched,
          result |-> Ok(json_dumps(asdict(ErrorMessage("Message handling error: ", e, now))))]

\* handle_message_json(message_json) at time now; dispatched records
\* whether process_agent_message was called
handle_message_json(self, message_json, env, now) ==
    LET message_data == json_loads(message_json)
    IN  IF message_data.raised THEN handle_except(self, message_data.exc, now, FALSE)
        ELSE LET message == AgentMessage(message_data.value)
             IN  IF message.raised THEN handle_except(self, message.exc, now, FALSE)
                 ELSE LET r == process_agent_message(self, message.value, env, now)
                      IN  IF r.result.raised THEN handle_except(r.self, r.result.exc, now, TRUE)
                          ELSE [self |-> r.self, dispatched |-> TRUE,
                                result |-> Ok(json_dumps(asdict(r.result.value)))]

\* -------------------------------------------------------- NextcloudClient
\* world: [folders, files, local, dirs, requests]
\*   folders   folders that exist on the server (besides the root "")
\*   files     files that exist on the server
\*   local     local paths that are files
\*   dirs      local paths that are directories
\*   requests  the HTTP requests issued during the current operation, each
\*             with the response it got
\* as main() finds it: an empty account, the test file written locally
NewCloud == [folders |-> {}, files |-> {}, local |-> {"test_file.txt"}, dirs |-> {}]

\* urljoin(self.webdav_url, path) for a relative path
urljoin(path) == <<"remote.php/dav/files/", path>>

\* what the network and the server do to one request: serve it, refuse the
\* credentials, fail, or never answer within the timeout
NetOutcomes == {"serve", "unauthorized", "server_error", "timeout"}

\* the status a WebDAV server that serves the request answers with, and the
\* folders and files it holds afterwards
served(world, method, path) ==
    CASE method = "GET" ->
           [world |-> world,
            status |-> IF path = "" \/ path \in world.files THEN 200 ELSE 404]
      [] method = "PROPFIND" ->
           [world |-> world,
            status |-> IF path = "" \/ path \in world.folders THEN 207 ELSE 404]
      [] method = "PUT" ->
           [world |-> [world EXCEPT !.files = @ \cup {path}],
            status |-> IF path \in world.files THEN 204 ELSE 201]
      [] OTHER ->
           [world |-> [world EXCEPT !.folders = @ \cup {path}],
            status |-> IF path \in world.folders THEN 405 ELSE 201]

\* requests.request(method, url, auth=..., timeout=...): one HTTP request;
\* the response, or a RequestException
request(world, method, path, net) ==
    LET answer == CASE net = "serve" -> served(world, method, path)
                    [] net = "unauthorized" -> [world |-> world, status |-> 401]
                    [] OTHER -> [world |-> world, status |-> 500]
        response == IF net = "timeout"
                    THEN Raise(Exception("RequestException", <<"Read timed out">>))
                    ELSE Ok([status_code |-> answer.status])
        after == IF net = "timeout" THEN world ELSE answer.world
    IN  [world |-> [after EXCEPT !.requests =
                       Append(@, [method |-> method, url |-> urljoin(path),
                                  response |-> response])],
         response |-> response]

\* the shape shared by the five operations after their request: True when
\* the status is one of ok, False for another status and for a
\* RequestException
outcome(r, ok) ==
    [world |-> r.world,
     result |-> IF r.response.raised THEN Ok(FALSE)
                ELSE Ok(r.response.value.status_code \in ok)]

\* test_connection()
test_connection(world, net) == outcome(request(world, "GET", "", net), {200})

\* list_files(path)
list_files(world, path, net) == outcome(request(world, "PROPFIND", path, net), {207})

\* open(local_path, 'rb'): an OSError unless the path is a file
open_rb(world, local_path) ==
    IF local_path \in world.local THEN Ok(local_path)
    ELSE IF local_path \in world.dirs
    THEN Raise(Exception("IsADirectoryError", <<"Is a directory: ", local_path>>))
    ELSE Raise(Exception("FileNotFoundError", <<"No such file or directory: ", local_path>>))

\* upload_file(local_path, remote_path)
upload_file(world, local_path, remote_path, net) ==
    IF local_path \notin world.local \cup world.dirs
    THEN [world |-> world, result |-> Ok(FALSE)]
    ELSE LET f == open_rb(world, local_path)
         IN  IF f.raised THEN [world |-> world, result |-> f]
             ELSE outcome(request(world, "PUT", remote_path, net), {201, 204})

\* os.path.dirname(local_path)
dirname(local_path) ==
    IF local_path = "downloads/downloaded_test.txt" THEN "downloads" ELSE ""

\* os.makedirs(name, exist_ok=True): the empty name is no path; a name
\* that is a file cannot become a directory
makedirs(world, name) ==
    IF name = ""
    THEN [world |-> world,
          result |-> Raise(Exception("FileNotFoundError", <<"No such file or directory: ", name>>))]
    ELSE IF name \in world.local
    THEN [world |-> world,
          result |-> Raise(Exception("FileExistsError", <<"File exists: ", name>>))]
    ELSE [world |-> [world EXCEPT !.dirs = @ \cup {name}], result |-> Ok(TRUE)]

\* open(local_path, 'wb') and f.write(response.content)
write_wb(world, local_path) ==
    IF local_path \in world.dirs
    THEN [world |-> world,
          result |-> Raise(Exception("IsADirectoryError", <<"Is a directory: ", local_path>>))]
    ELSE [world |-> [world EXCEPT !.local = @ \cup {local_path}], result |-> Ok(TRUE)]

\* download_file(remote_path, local_path)
download_file(world, remote_path, local_path, net) ==
    LET r == request(world, "GET", remote_path, net)
        made == makedirs(r.world, dirname(local_path))
        written == write_wb(made.world, local_path)
    IN  IF r.response.raised \/ r.response.value.status_code # 200
        THEN outcome(r, {200})
        ELSE IF made.result.raised THEN made
        ELSE written

\* create_folder(folder_path)
create_folder(world, folder_path, net) ==
    outcome(request(world, "MKCOL", folder_path, net), {201, 405})

Range(seq) == {seq[i] : i \in 1..Len(seq)}

AgentIds == {"c1", "c2"}

MessageTypes == {"email_send_request", "health_check", "capability_inquiry", "email_send"}

CorrelationIds == {None, Some("k1")}

Mapping(items) == [kind |-> "mapping", items |-> items]

\* a payload with all required EmailRequest fields and nothing else
FullPayload == Mapping([to |-> <<"a@x", "b@x">>, subject |-> "s", body |-> "b"])

Restrict(f, ks) == [k \in ks |-> f[k]]

\* payloads: every subset of the required fields; the full payload with an
\* optional field, with a key that is no field, with an empty recipient
\* list; a payload lacking a field and carrying a key that is no field; a
\* payload that is no mapping
Payloads ==
    {Mapping(Restrict(FullPayload.items, ks)) : ks \in SUBSET {"to", "subject", "body"}}
    \cup {Mapping([to |-> <<"a@x">>, subject |-> "s", body |-> "b", cc |-> Some(<<"c@x">>)]),
          Mapping([to |-> <<"a@x">>, subject |-> "s", body |-> "b", priority |-> "high"]),
          Mapping([to |-> <<>>, subject |-> "s", body |-> "b"]),
          Mapping([subject |-> "s", body |-> "b", priority |-> "high"]),
          [kind |-> "NoneType"]}

Requests ==
    [agent_id : AgentIds, message_type : MessageTypes, timestamp : {"t"},
     payload : Payloads, correlation_id : CorrelationIds, reply_to : {None}]

\* backend behaviours during one operation; the outcome of a step that an
\* earlier failure prevents is immaterial and fixed
Envs ==
    {e \in [authOk : BOOLEAN, createOk : BOOLEAN, send : SendOutcomes] :
        (~e.authOk \/ ~e.createOk) => (e.createOk /\ e.send = "sent")}

\* messages put on the wire: those of Requests that carry the full payload
WireRequests == {m \in Requests : m.payload = FullPayload}

WithKey(items, k, v) == [x \in DOMAIN items \cup {k} |-> IF x = k THEN v ELSE items[x]]

\* JSON objects: a serialized message, possibly without one of its keys,
\* possibly with a key that is no Message field
WireObjects ==
    LET keys == AgentMessageFields
        kept == {keys} \cup {keys \ {k} : k \in Range(AgentMessageRequired) \cup {"correlation_id"}}
        cut == {Restrict(m, ks) : m \in WireRequests, ks \in kept}
    IN  {Mapping(o) : o \in cut} \cup {Mapping(WithKey(o, "priority", "high")) : o \in cut}

\* texts handed to handle_message_json: not JSON at all, a JSON value that
\* is no object, a JSON object
JsonTexts ==
    {[form |-> "malformed"], [form |-> "json", data |-> [kind |-> "list"]]}
    \cup {json_dumps(o) : o \in WireObjects}

\* remote folders and files, as in main(), and one more folder
RemoteFolders == {"test_folder", "shared"}

RemoteFiles == {"test_folder/uploaded_test.txt"}

\* local paths: the test file, a download target in a directory, a
\* download target without a directory part, the directory itself
LocalPaths == {"test_file.txt", "downloads/downloaded_test.txt", "downloaded_test.txt",
               "downloads"}

\* ------------------------------------------------------------- the state
VARIABLES
    agent,   \* the GmailAgent instance: its session handle
    clock,   \* current UTC time, one tick per operation
    call,    \* the last operation: its input, the agent before it, the
             \* adapter steps it took, its result
    cloud    \* what NextcloudClient works on: the server's folders and
             \* files, the local files and directories

vars == <<agent, clock, call, cloud>>

Init ==
    /\ agent = [service |-> None, builds |-> 0]
    /\ clock = 0
    /\ call = [op |-> "init"]
    /\ cloud = NewCloud

\* the instance at the start of an operation
Self == [service |-> agent.service, builds |-> agent.builds, log |-> <<>>]

Fields(self) == [service |-> self.service, builds |-> self.builds]

\* a caller invokes agent.process_agent_message(message)
ProcessAgentMessage ==
    /\ clock < MaxClock
    /\ \E message \in Requests, env \in Envs :
          LET r == process_agent_message(Self, message, env, clock + 1)
          IN  /\ agent' = Fields(r.self)
              /\ call' = [op |-> "process", message |-> message, before |-> agent,
                          log |-> r.self.log, result |-> r.result]
    /\ clock' = clock + 1
    /\ UNCHANGED cloud

\* a caller invokes agent.authenticate() directly, as main() does
Authenticate ==
    /\ clock < MaxClock
    /\ \E authOk \in BOOLEAN :
          LET r == authenticate(Self, authOk)
          IN  /\ agent' = Fields(r.self)
              /\ call' = [op |-> "authenticate", before |-> agent,
                          log |-> r.self.log, result |-> Ok(r.value)]
    /\ clock' = clock + 1
    /\ UNCHANGED cloud

\* a caller invokes agent.handle_message_json(message_json)
HandleMessageJson ==
    /\ clock < MaxClock
    /\ \E message_json \in JsonTexts, env \in Envs :
          LET r == handle_message_json(Self, message_json, env, clock + 1)
          IN  /\ agent' = Fields(r.self)
              /\ call' = [op |-> "json", message_json |-> message_json, before |-> agent,
                          log |-> r.self.log, dispatched |-> r.dispatched,
                          result |-> r.result]
    /\ clock' = clock + 1
    /\ UNCHANGED cloud

\* the agent driven through process_agent_message
Next ==
    \/ ProcessAgentMessage
    \/ Authenticate

Spec == Init /\ [][Next]_vars

\* the agent driven through its JSON entry point
NextJson ==
    \/ HandleMessageJson
    \/ Authenticate

SpecJson == Init /\ [][NextJson]_vars

\* the client at the start of an operation
World == [folders |-> cloud.folders, files |-> cloud.files, local |-> cloud.local,
          dirs |-> cloud.dirs, requests |-> <<>>]

\* a NextcloudClient operation op with arguments args returned r
Called(op, args, r) ==
    /\ clock < MaxClock
    /\ cloud' = [folders |-> r.world.folders, files |-> r.world.files,
                 local |-> r.world.local, dirs |-> r.world.dirs]
    /\ call' = [op |-> op, args |-> args, before |-> cloud,
                requests |-> r.world.requests, result |-> r.result]
    /\ clock' = clock + 1
    /\ UNCHANGED agent

TestConnection ==
    \E net \in NetOutcomes :
        Called("test_connection", <<>>, test_connection(World, net))

ListFiles ==
    \E path \in RemoteFolders \cup {""}, net \in NetOutcomes :
        Called("list_files", <<path>>, list_files(World, path, net))

UploadFile ==
    \E local_path \in LocalPaths, remote_path \in RemoteFiles, net \in NetOutcomes :
        Called("upload_file", <<local_path, remote_path>>,
               upload_file(World, local_path, remote_path, net))

DownloadFile ==
    \E remote_path \in RemoteFiles, local_path \in LocalPaths, net \in NetOutcomes :
        Called("download_file", <<remote_path, local_path>>,
               download_file(World, remote_path, local_path, net))

CreateFolder ==
    \E folder_path \in RemoteFolders, net \in NetOutcomes :
        Called("create_folder", <<folder_path>>, create_folder(World, folder_path, net))

\* the Nextcloud client driven through its five operations
NextNextcloud ==
    \/ TestConnection
    \/ ListFiles
    \/ UploadFile
    \/ DownloadFile
    \/ CreateFolder

SpecNextcloud == Init /\ [][NextNextcloud]_vars

\* ------------------------------------------------------------ properties
\* the last operation was process_agent_message
Processed == call.op = "process"

\* the message the last process_agent_message returned
Returned == call.result.value

\* log entries of one adapter step
StepsOf(log, name) == {i \in 1..Len(log) : log[i].step = name}

\* the last operation made no call to the backend and left the session alone
Untouched == call.log = <<>> /\ agent = call.before

\* the payload has the EmailRequest shape: a mapping with every required
\* field and no key that is no field
ValidEmailPayload(payload) ==
    /\ payload.kind = "mapping"
    /\ {"to", "subject", "body"} \subseteq DOMAIN payload.items
    /\ DOMAIN payload.items \subseteq EmailRequestFields

\* C1: every process_agent_message call, whatever the message type and
\* whether or not its handling fails, returns one response message whose
\* correlation_id is the request's (absent when the request had none) and
\* whose reply_to is the request's agent_id.
C1_Correlated ==
    Processed =>
        /\ ~call.result.raised
        /\ Returned.correlation_id = call.message.correlation_id
        /\ Returned.reply_to = Some(call.message.agent_id)
        /\ Returned.agent_id = SelfId

\* C1 witness: a request with a correlation id whose handling failed
C1_Witness ==
    /\ Processed
    /\ call.message.correlation_id = Some("k1")
    /\ call.message.agent_id = "c2"
    /\ call.message.message_type = "email_send_request"
    /\ call.message.payload.kind # "mapping"
    /\ Returned.correlation_id = Some("k1")

\* the EmailResponse invariant
EmailResponseInvariant(p) ==
    /\ p.success => (p.message_id.present /\ ~p.error.present)
    /\ ~p.success => p.error.present

AuthenticationFailed ==
    \E i \in StepsOf(call.log, "authenticate") : call.log[i].outcome = "failed"

SendRaised ==
    \E i \in StepsOf(call.log, "send") : call.log[i].outcome \in {"HttpError", "Exception"}

\* C3 as claimed: when authentication fails or the send call raises while
\* an email_send_request is handled, the response is an error_response
\* carrying the failure description.
C3_AsClaimed ==
    (Processed /\ call.message.message_type = "email_send_request"
     /\ (AuthenticationFailed \/ SendRaised))
    => /\ ~call.result.raised
       /\ Returned.message_type = "error_response"
       /\ "error" \in DOMAIN Returned.payload

\* C3 amended: when authentication fails or the send call raises while an
\* email_send_request is handled, the fault does not propagate; the response
\* is an email_send_response whose payload has success false and an error
\* text carrying the failure description.
C3_BackendFailure ==
    (Processed /\ call.message.message_type = "email_send_request"
     /\ (AuthenticationFailed \/ SendRaised))
    => /\ ~call.result.raised
       /\ Returned.message_type = "email_send_response"
       /\ ~Returned.payload.success
       /\ Returned.payload.error.present
       /\ AuthenticationFailed => Returned.payload.error.value = <<"Authentication failed">>
       /\ \A i \in StepsOf(call.log, "send") :
            /\ call.log[i].outcome = "HttpError"
                 => Returned.payload.error.value = <<"Gmail API error: ", "HttpError 403">>
            /\ call.log[i].outcome = "Exception"
                 => Returned.payload.error.value = <<"Unexpected error: ", "connection reset">>

\* C3 witness: the send call raised an HttpError
C3_Witness ==
    /\ Processed
    /\ call.message.message_type = "email_send_request"
    /\ \E i \in StepsOf(call.log, "send") : call.log[i].outcome = "HttpError"
    /\ Returned.message_type = "email_send_response"

\* C4: an email_send_request whose payload lacks a required EmailRequest
\* field returns (never raises) an error_response whose error text describes
\* the coercion failure, calls neither authentication nor send, and leaves
\* the session unchanged.
C4_MissingField ==
    (/\ Processed
     /\ call.message.message_type = "email_send_request"
     /\ call.message.payload.kind = "mapping"
     /\ ~({"to", "subject", "body"} \subseteq DOMAIN call.message.payload.items))
    => /\ ~call.result.raised
       /\ Returned.message_type = "error_response"
       /\ DOMAIN Returned.payload = {"error"}
       /\ Returned.payload.error[1] = "Processing error: "
       /\ \/ /\ Returned.payload.error[2] = "missing required positional arguments: "
             /\ \A k \in {"to", "subject", "body"} :
                  Contains(Returned.payload.error, k)
                      <=> k \notin DOMAIN call.message.payload.items
          \/ /\ Returned.payload.error[2] = "got an unexpected keyword argument "
             /\ Returned.payload.error[3] \in DOMAIN call.message.payload.items
             /\ Returned.payload.error[3] \notin EmailRequestFields
       /\ Untouched

\* C4 witness: a payload without "to", handled when a session exists
C4_Witness ==
    /\ Processed
    /\ call.message.message_type = "email_send_request"
    /\ call.message.payload.kind = "mapping"
    /\ DOMAIN call.message.payload.items = {"subject", "body"}
    /\ call.before.service.present
    /\ Returned.message_type = "error_response"

KnownTypes == {"email_send_request", "health_check", "capability_inquiry"}

\* C5: a message of any other type than the three known ones yields an
\* error_response with payload {error: "Unknown message type: <type>"},
\* without a backend call and without a change of the session.
C5_UnknownType ==
    (Processed /\ call.message.message_type \notin KnownTypes)
    => /\ ~call.result.raised
       /\ Returned.message_type = "error_response"
       /\ Returned.payload = [error |-> <<"Unknown message type: ", call.message.message_type>>]
       /\ Contains(Returned.payload.error, call.message.message_type)
       /\ Untouched

\* C5 witness: the type "email_send", handled when a session exists
C5_Witness ==
    /\ Processed
    /\ call.message.message_type = "email_send"
    /\ call.before.service.present
    /\ Returned.message_type = "error_response"

\* number of send calls made during the last operation
Sends == Cardinality(StepsOf(call.log, "send"))

HadSession ==
    \/ call.before.service.present
    \/ \E i \in StepsOf(call.log, "authenticate") : call.log[i].outcome = "ok"

MessageCreated ==
    \E i \in StepsOf(call.log, "create_message") : call.log[i].outcome = "ok"

C7_AsClaimed ==
    Processed =>
        \/ Returned.message_type = "error_response"
        \/ Returned.message_type =
             (CASE call.message.message_type = "email_send_request" -> "email_send_response"
                [] call.message.message_type = "health_check" -> "health_check_response"
                [] call.message.message_type = "capability_inquiry" -> "capability_inquiry_response"
                [] OTHER -> "error_response")

\* C7 amended: the response type is email_send_response for
\* email_send_request, health_check_response for health_check,
\* capability_response for capability_inquiry, or error_response; no other
\* response type is produced, and health_check and capability_inquiry never
\* yield error_response.
C7_ResponseType ==
    Processed =>
        /\ \/ Returned.message_type = "error_response"
           \/ Returned.message_type =
                (CASE call.message.message_type = "email_send_request" -> "email_send_response"
                   [] call.message.message_type = "health_check" -> "health_check_response"
                   [] call.message.message_type = "capability_inquiry" -> "capability_response"
                   [] OTHER -> "error_response")
        /\ call.message.message_type \in {"health_check", "capability_inquiry"}
             => Returned.message_type # "error_response"

\* C7 witness: a capability_inquiry answered
C7_Witness ==
    /\ Processed
    /\ call.message.message_type = "capability_inquiry"
    /\ Returned.message_type = "capability_response"

\* C8: a health_check yields a health_check_response with payload
\* {status: "healthy", agent_id: own id, authenticated: A}, A being true
\* exactly when an earlier authentication of this instance succeeded; no
\* backend call is made and the session is unchanged.
C8_HealthCheck ==
    (Processed /\ call.message.message_type = "health_check")
    => /\ ~call.result.raised
       /\ Returned.message_type = "health_check_response"
       /\ Returned.payload = [status |-> "healthy", agent_id |-> SelfId,
                              authenticated |-> call.before.builds > 0]
       /\ Returned.payload.authenticated = call.before.service.present
       /\ Untouched

\* C8 witness: a health_check after a successful authentication
C8_Witness ==
    /\ Processed
    /\ call.message.message_type = "health_check"
    /\ call.before.builds > 0
    /\ Returned.payload.authenticated

\* C8 witness of the other case: a health_check on an instance whose only
\* authentication attempts failed
C8_WitnessUnauthenticated ==
    /\ Processed
    /\ call.message.message_type = "health_check"
    /\ clock > 1
    /\ call.before.builds = 0
    /\ ~Returned.payload.authenticated

\* send_email ran during the last operation
SendEmailRan ==
    /\ Processed
    /\ call.message.message_type = "email_send_request"
    /\ ValidEmailPayload(call.message.payload)

\* C9: authentication is lazy and the session is reused.  send_email
\* authenticates exactly when no session exists; message handling never
\* clears or replaces an existing session, and a send uses that session
\* without authenticating; after a failed authentication the session stays
\* absent.
C9_LazyReuse ==
    /\ Processed =>
         /\ StepsOf(call.log, "authenticate") # {}
              <=> (SendEmailRan /\ ~call.before.service.present)
         /\ Cardinality(StepsOf(call.log, "authenticate")) <= 1
         /\ call.before.service.present => agent.service = call.before.service
         /\ AuthenticationFailed => ~agent.service.present
         /\ \A i \in StepsOf(call.log, "send") :
              /\ call.log[i].session = agent.service
              /\ call.log[i].session.present
    /\ agent.service.present <=> agent.builds > 0

\* C9 witness: a send on a session established by an earlier operation
C9_Witness ==
    /\ SendEmailRan
    /\ call.before.service.present
    /\ Sends = 1
    /\ StepsOf(call.log, "authenticate") = {}

\* C9 witness of the retry: send_email authenticates again on an instance
\* whose earlier authentication failed
C9_WitnessRetry ==
    /\ SendEmailRan
    /\ clock > 1
    /\ ~call.before.service.present
    /\ StepsOf(call.log, "authenticate") # {}

\* the last operation was handle_message_json
JsonHandled == call.op = "json"

\* the text is well-formed JSON
WellFormed(text) == text.form = "json"

\* the parsed value lacks a required Message field (a value that is no
\* object has none of them)
LacksRequired(text) ==
    \/ text.data.kind # "mapping"
    \/ \E k \in {"agent_id", "message_type", "timestamp", "payload"} :
         k \notin DOMAIN text.data.items

\* the parsed object carries a key that is no Message field
HasUnknownKey(text) ==
    /\ text.data.kind = "mapping"
    /\ \E k \in DOMAIN text.data.items :
         k \notin {"agent_id", "message_type", "timestamp", "payload",
                   "correlation_id", "reply_to"}

\* handle_message_json returned a serialized error_response carrying a
\* failure description, dispatched no handler, made no backend call and left
\* the session unchanged
ErrorReturned ==
    /\ ~call.result.raised
    /\ Returned.form = "json"
    /\ Returned.data.kind = "mapping"
    /\ Returned.data.items.agent_id = SelfId
    /\ Returned.data.items.message_type = "error_response"
    /\ DOMAIN Returned.data.items.payload = {"error"}
    /\ Returned.data.items.payload.error[1] \in {"Invalid JSON: ", "Message handling error: "}
    /\ Len(Returned.data.items.payload.error) > 1
    /\ ~call.dispatched
    /\ Untouched

\* handle_message_json returned the serialization of exactly the message
\* process_agent_message produces for the parsed message, with its effects
DispatchedResult ==
    LET text == call.message_json
        message == [agent_id |-> text.data.items.agent_id,
                    message_type |-> text.data.items.message_type,
                    timestamp |-> text.data.items.timestamp,
                    payload |-> text.data.items.payload,
                    correlation_id |-> IF "correlation_id" \in DOMAIN text.data.items
                                       THEN text.data.items.correlation_id ELSE None,
                    reply_to |-> IF "reply_to" \in DOMAIN text.data.items
                                 THEN text.data.items.reply_to ELSE None]
        self == [service |-> call.before.service, builds |-> call.before.builds, log |-> <<>>]
    IN  /\ ~call.result.raised
        /\ call.dispatched
        /\ \E env \in Envs :
             LET r == process_agent_message(self, message, env, clock)
             IN  /\ ~r.result.raised
                 /\ Returned = [form |-> "json",
                                data |-> [kind |-> "mapping", items |-> r.result.value]]
                 /\ agent = Fields(r.self)
                 /\ call.log = r.self.log
        /\ Returned.data.items.reply_to = Some(message.agent_id)
        /\ Returned.data.items.correlation_id = message.correlation_id
        /\ Returned.data.items.message_type # "error_response"
             \/ message.message_type \notin {"health_check", "capability_inquiry"}

\* C10 as claimed: handle_message_json never raises; a text that is not
\* well-formed JSON or whose object lacks a required field yields a
\* serialized error_response without dispatch, backend call or session
\* change; every other text yields the serialization of the message
\* process_agent_message produces.
C10_AsClaimed ==
    JsonHandled =>
        IF ~WellFormed(call.message_json) \/ LacksRequired(call.message_json)
        THEN ErrorReturned
        ELSE DispatchedResult

\* C10 amended: handle_message_json never raises; a text that is not
\* well-formed JSON, or whose parsed value is no object, lacks a required
\* field or carries a key that is no Message field, yields a serialized
\* error_response without dispatch, backend call or session change; every
\* other text yields the serialization of the message process_agent_message
\* produces.
C10_JsonBoundary ==
    JsonHandled =>
        IF \/ ~WellFormed(call.message_json)
           \/ LacksRequired(call.message_json)
           \/ HasUnknownKey(call.message_json)
        THEN ErrorReturned
        ELSE DispatchedResult

\* C10 witness: an object without "timestamp" refused when a session exists
C10_Witness ==
    /\ JsonHandled
    /\ WellFormed(call.message_json)
    /\ call.message_json.data.kind = "mapping"
    /\ DOMAIN call.message_json.data.items =
         {"agent_id", "message_type", "payload", "correlation_id", "reply_to"}
    /\ call.before.service.present
    /\ Returned.data.items.message_type = "error_response"
    /\ ~call.dispatched

\* C10 witness of the dispatch: a well-formed message whose send succeeded
C10_WitnessDispatched ==
    /\ JsonHandled
    /\ call.dispatched
    /\ Sends = 1
    /\ Returned.data.items.message_type = "email_send_response"
    /\ Returned.data.items.payload.success

\* C11: in every reachable state, authenticated or not and after any
\* earlier messages, a capability_inquiry returns the same constant payload
\* {capabilities: [email_send, html_email, attachments, cc_bcc_support],
\* agent_type: gmail_agent, version: 1.0}; handling it makes no backend call
\* and changes nothing.
C11_CapabilityConstant ==
    (Processed /\ call.message.message_type = "capability_inquiry")
    => /\ ~call.result.raised
       /\ Returned.payload =
            [capabilities |-> <<"email_send", "html_email", "attachments", "cc_bcc_support">>,
             agent_type |-> "gmail_agent",
             version |-> "1.0"]
       /\ Untouched

\* C11 witness: a capability_inquiry answered on an instance that has no
\* session although earlier operations were performed on it
C11_Witness ==
    /\ Processed
    /\ call.message.message_type = "capability_inquiry"
    /\ clock > 1
    /\ ~call.before.service.present
    /\ Len(Returned.payload.capabilities) = 4

\* C11 witness of the other state: a capability_inquiry answered on an
\* authenticated instance
C11_WitnessAuthenticated ==
    /\ Processed
    /\ call.message.message_type = "capability_inquiry"
    /\ call.before.service.present
    /\ Returned.payload.version = "1.0"

\* the last operation was one of NextcloudClient's
NextcloudCalled ==
    call.op \in {"test_connection", "list_files", "upload_file", "download_file",
                 "create_folder"}

\* the statuses an operation takes for success
SuccessSet(op) ==
    CASE op \in {"test_connection", "download_file"} -> {200}
      [] op = "list_files" -> {207}
      [] op = "upload_file" -> {201, 204}
      [] OTHER -> {201, 405}

\* the last operation got a response whose status it takes for success
SuccessStatus ==
    \E i \in 1..Len(call.requests) :
        /\ ~call.requests[i].response.raised
        /\ call.requests[i].response.value.status_code \in SuccessSet(call.op)

\* C12: each NextcloudClient operation issues at most one HTTP request per
\* call and reports the outcome as a boolean: True exactly when the response
\* status is in the operation's success set, False for any other status or
\* a request exception; upload_file on a local path that does not exist
\* returns False without issuing a request.
C12_BooleanOutcome ==
    NextcloudCalled =>
        /\ Len(call.requests) <= 1
        /\ ~call.result.raised
        /\ call.result.value \in BOOLEAN
        /\ call.result.value <=> SuccessStatus
        /\ (call.op = "upload_file"
            /\ call.args[1] \notin call.before.local \cup call.before.dirs)
             => (call.result.value = FALSE /\ call.requests = <<>>)

\* what the code does keep of C12: at most one request per call; an operation
\* that returns, returns True exactly on a success status; an operation that
\* raises is a download_file whose status was 200 or an upload_file that had
\* issued no request, failing on the local file system
C12_UnlessLocalFault ==
    NextcloudCalled =>
        /\ Len(call.requests) <= 1
        /\ ~call.result.raised => (call.result.value <=> SuccessStatus)
        /\ call.result.raised =>
             /\ call.result.exc.type # "RequestException"
             /\ \/ call.op = "download_file" /\ SuccessStatus
                \/ call.op = "upload_file" /\ call.requests = <<>>
        /\ (call.op = "upload_file"
            /\ call.args[1] \notin call.before.local \cup call.before.dirs)
             => (~call.result.raised /\ call.result.value = FALSE /\ call.requests = <<>>)

\* creating a folder that exists succeeds again, on the status 405
C12_FolderCreatedAgain ==
    /\ call.op = "create_folder"
    /\ call.args[1] \in call.before.folders
    /\ call.requests[1].response = Ok([status_code |-> 405])
    /\ call.result = Ok(TRUE)

\* a download answered 200 whose local path has no directory part
C12_DownloadRaised ==
    /\ call.op = "download_file"
    /\ call.args[2] = "downloaded_test.txt"
    /\ SuccessStatus
    /\ call.result.raised

====
